---- MODULE Spec2Model ----
(***************************************************************************)
(* P3PenroseTiles: the Robinson-triangle tiles (core/blocks.py) and the    *)
(* Canvas that inflates, deduplicates, mirrors and rotates them            *)
(* (core/tiling.py).                                                       *)
(*                                                                         *)
(* Numbers.  The code computes with Python floats; here every coordinate   *)
(* is an exact element of Z[phi] (phi the golden ratio), written <<a, b>>  *)
(* for a + b*phi.  A Point with fields re, im stands for the complex       *)
(* number  re/2 + i*sin(pi/5)*im : all the seed tiles of the examples, and *)
(* everything inflate / conjugate / the flips / a half-turn make of them,  *)
(* have coordinates of this form.  Python's isclose() on quantities that   *)
(* are equal in exact arithmetic is modelled as exact equality.            *)
(***************************************************************************)
EXTENDS Integers, Sequences, FiniteSets, TLC

\* ------------------------------------------------------------------ bounds
MaxGen == 2     \* num_generations is drawn from 0 .. MaxGen
MaxOps == 2     \* Canvas methods the caller invokes after construction
MaxTiles == 21  \* inflate / add_conjugate_elements are not run past this size

\* ------------------------------------------------------- Z[phi] arithmetic
ZAdd(p, q) == <<p[1] + q[1], p[2] + q[2]>>
ZNeg(p) == <<-p[1], -p[2]>>
ZSub(p, q) == <<p[1] - q[1], p[2] - q[2]>>
\* (a + b phi)(c + d phi), with phi^2 = phi + 1
ZMul(p, q) == <<p[1]*q[1] + p[2]*q[2], p[1]*q[2] + p[2]*q[1] + p[2]*q[2]>>
ZInt(n) == <<n, 0>>
RECURSIVE SignDiff(_, _)
\* the sign of a - c*phi for integers a, c > 0 (never 0).  For c < a < 2c,
\* a - c*phi = ((a - c)*phi - c) / phi, which has the sign of -(c - (a-c)*phi)
SignDiff(a, c) ==
    IF a >= 2*c THEN 1
    ELSE IF a <= c THEN -1
    ELSE -SignDiff(c, a - c)
\* the sign of a + b*phi
ZSign(p) ==
    IF p[1] >= 0 /\ p[2] >= 0 THEN (IF p[1] = 0 /\ p[2] = 0 THEN 0 ELSE 1)
    ELSE IF p[1] <= 0 /\ p[2] <= 0 THEN -1
    ELSE IF p[1] > 0 THEN SignDiff(p[1], -p[2])
    ELSE -SignDiff(-p[1], p[2])
ZLess(p, q) == ZSign(ZSub(p, q)) < 0
ZLeq(p, q) == ZSign(ZSub(p, q)) <= 0
ZAbs(p) == IF ZSign(p) < 0 THEN ZNeg(p) ELSE p

\* core/utils.py
PHI == <<0, 1>>
PSI == <<-1, 1>>
PSI_SQUARED == ZSub(ZInt(1), PSI)
\* 4 sin^2(pi/5) = 3 - phi
FourSinSq == <<3, -1>>

\* ------------------------------------------------------------------ points
Pt(re, im) == [re |-> re, im |-> im]
PAdd(p, q) == Pt(ZAdd(p.re, q.re), ZAdd(p.im, q.im))
PSub(p, q) == Pt(ZSub(p.re, q.re), ZSub(p.im, q.im))
\* product by a real scalar of Z[phi]
PScale(s, p) == Pt(ZMul(s, p.re), ZMul(s, p.im))
\* complex.conjugate()
PConj(p) == Pt(p.re, ZNeg(p.im))
\* 4 * abs(p)^2 = re^2 + (3 - phi) im^2
NormSq4(p) == ZAdd(ZMul(p.re, p.re), ZMul(FourSinSq, ZMul(p.im, p.im)))
\* p.real*q.imag - p.imag*q.real, in units of sin(pi/5)/2
Cross(p, q) == ZSub(ZMul(p.re, q.im), ZMul(p.im, q.re))

\* ------------------------------------------------------------------- tiles
\* ref: the position of this tile object in the caller's seed list, 0 for an
\* object only the Canvas holds.
Tile(kind, A, V, B) == [kind |-> kind, A |-> A, vertex |-> V, B |-> B, ref |-> 0]

leg_length_sq4(t) == NormSq4(PSub(t.A, t.vertex))
base_length_sq4(t) == NormSq4(PSub(t.A, t.B))
\* 2 * base_midpoint: (A + B) / 2 is kept doubled to stay in Z[phi]
base_midpoint2(t) == PAdd(t.A, t.B)
rhombus_center2(t) == base_midpoint2(t)

\* the assertion of RobinsonTriangle.__init__
TriangleOK(t) == NormSq4(PSub(t.A, t.vertex)) = NormSq4(PSub(t.B, t.vertex))
\* the assertions of LargeTile.__init__ / SmallTile.__init__ : base/leg is
\* PHI (PSI); a zero leg raises ZeroDivisionError instead.
RatioOK(t) ==
    /\ leg_length_sq4(t) # ZInt(0)
    /\ base_length_sq4(t) =
         ZMul(IF t.kind = "Large" THEN ZMul(PHI, PHI) ELSE ZMul(PSI, PSI),
              leg_length_sq4(t))
Constructible(t) == TriangleOK(t) /\ RatioOK(t)

\* RobinsonTriangle.conjugate
conjugate(t) == Tile(t.kind, PConj(t.A), PConj(t.vertex), PConj(t.B))

\* LargeTile.inflate returning its children in another order
LargeTile_inflate_reordered(t) ==
    LET D == PAdd(PScale(PSI_SQUARED, t.A), PScale(PSI, t.B))
        E == PAdd(PScale(PSI_SQUARED, t.A), PScale(PSI, t.vertex))
    IN  << Tile("Large", D, E, t.A),
           Tile("Large", t.B, D, t.vertex),
           Tile("Small", E, D, t.vertex) >>

LargeTile_inflate(t) ==
    LET D == PAdd(PScale(PSI_SQUARED, t.A), PScale(PSI, t.B))
        E == PAdd(PScale(PSI_SQUARED, t.A), PScale(PSI, t.vertex))
    IN  << Tile("Large", D, E, t.A),
           Tile("Small", E, D, t.vertex),
           Tile("Large", t.B, D, t.vertex) >>

\* SmallTile.inflate with the weights of D exchanged
SmallTile_inflate_swapped_weights(t) ==
    LET D == PAdd(PScale(PSI_SQUARED, t.A), PScale(PSI, t.vertex))
    IN  << Tile("Small", D, t.B, t.A),
           Tile("Large", t.B, D, t.vertex) >>

SmallTile_inflate(t) ==
    LET D == PAdd(PScale(PSI, t.A), PScale(PSI_SQUARED, t.vertex))
    IN  << Tile("Small", D, t.B, t.A),
           Tile("Large", t.B, D, t.vertex) >>

\* e.inflate(), dispatched on the class of e
tile_inflate(t) ==
    IF t.kind = "Large" THEN LargeTile_inflate(t) ELSE SmallTile_inflate(t)

\* ------------------------------------------------------ Canvas, pure parts
\* get_default_config, the options the tiling reads (colours, opacities and
\* the stroke only reach the SVG text).  margin is in percent, rotation in
\* half-turns (rotation = k*pi), equality_tol in length units.
get_default_config ==
    [margin |-> 0, reflect_x |-> TRUE, rotation |-> 0, equality_tol |-> 0]

\* the key of sorted() in remove_duplicates: (center.real, center.imag),
\* compared as Python compares tuples
KeyLess(t, u) ==
    LET c == rhombus_center2(t)
        d == rhombus_center2(u)
    IN  \/ ZLess(c.re, d.re)
        \/ c.re = d.re /\ ZLess(c.im, d.im)

\* x put into the sorted s before the elements whose key is equal
InsertStable_before_equals(s, x) ==
    LET k == Cardinality({j \in 1..Len(s) : KeyLess(s[j], x)})
    IN  SubSeq(s, 1, k) \o <<x>> \o SubSeq(s, k + 1, Len(s))

\* x put into the sorted s behind every element whose key is not greater
InsertStable(s, x) ==
    LET k == Cardinality({j \in 1..Len(s) : ~KeyLess(x, s[j])})
    IN  SubSeq(s, 1, k) \o <<x>> \o SubSeq(s, k + 1, Len(s))

RECURSIVE sorted(_)
\* sorted(self.elements, key=...): a stable sort
sorted(s) ==
    IF s = <<>> THEN <<>>
    ELSE InsertStable(sorted(SubSeq(s, 1, Len(s) - 1)), s[Len(s)])

\* the test of remove_duplicates with < in place of <=
CentersClose_strict(t, u, tol) ==
    ZLess(NormSq4(PSub(rhombus_center2(t), rhombus_center2(u))),
          ZInt(16 * tol * tol))

\* isclose(abs(t.rhombus_center() - u.rhombus_center()), 0, abs_tol=tol):
\* d <= max(1e-9 * d, tol), that is d <= tol for tol >= 0
CentersClose(t, u, tol) ==
    ZLeq(NormSq4(PSub(rhombus_center2(t), rhombus_center2(u))),
         ZInt(16 * tol * tol))

\* the element compared with sorted_elements[i] in the scan
ScanPartner(s, i) == s[i - 1]

RECURSIVE DedupScan(_, _, _)
\* the loop of remove_duplicates over sorted_elements[1:], up to index i
DedupScan(s, i, tol) ==
    IF i = 1 THEN <<s[1]>>
    ELSE LET kept == DedupScan(s, i - 1, tol)
         IN  IF ~CentersClose(s[i], ScanPartner(s, i), tol)
             THEN Append(kept, s[i]) ELSE kept

\* the list remove_duplicates leaves in self.elements (els non-empty)
remove_duplicates_list(els, tol) ==
    LET s == sorted(els) IN DedupScan(s, Len(s), tol)

RECURSIVE Concat(_)
Concat(ss) == IF ss = <<>> THEN <<>> ELSE ss[1] \o Concat(Tail(ss))

\* new_elements of Canvas.inflate
inflate_list(els) == Concat([j \in 1..Len(els) |-> tile_inflate(els[j])])

\* [e.conjugate() for e in self.elements]
conjugate_list(els) == [j \in 1..Len(els) |-> conjugate(els[j])]

\* complex(cos(rotation), sin(rotation)) for rotation = k*pi
Rotator(k) == Pt(ZInt(IF k % 2 = 0 THEN 2 ELSE -2), ZInt(0))
ZHalf(p) == <<p[1] \div 2, p[2] \div 2>>
\* complex multiplication
PMul(p, q) ==
    Pt(ZHalf(ZSub(ZMul(p.re, q.re), ZMul(FourSinSq, ZMul(p.im, q.im)))),
       ZHalf(ZAdd(ZMul(p.re, q.im), ZMul(p.im, q.re))))

\* the body of the loop of rotate
rotate_tile(t, k) ==
    [t EXCEPT !.A = PMul(t.A, Rotator(k)),
              !.vertex = PMul(t.vertex, Rotator(k)),
              !.B = PMul(t.B, Rotator(k))]

\* the body of the loop of flip_about_yaxis.  complex(-e.vertex, e.B.imag)
\* is given a complex first argument: its value is -e.vertex + 1j*e.B.imag
flip_about_yaxis_tile(t) ==
    [t EXCEPT !.A = Pt(ZNeg(t.A.re), t.A.im),
              !.vertex = Pt(ZNeg(t.vertex.re),
                            ZAdd(ZNeg(t.vertex.im), t.B.im)),
              !.B = Pt(ZNeg(t.B.re), t.B.im)]

\* the body of the loop of flip_about_xaxis
flip_about_xaxis_tile(t) ==
    [t EXCEPT !.A = PConj(t.A), !.vertex = PConj(t.vertex), !.B = PConj(t.B)]

\* ------------------------------------------------------------ seed tilings
\* example_01.py: one LargeTile on the real axis (scale = 2*phi)
LargeSeed ==
    Tile("Large", Pt(<<0, -2>>, <<0, 0>>), Pt(<<0, 0>>, <<2, 0>>),
                  Pt(<<0, 2>>, <<0, 0>>))
\* example_02.py: the first two SmallTiles of the fan about the origin
\* (scale = 4): A1 = 2, B1 = B2 = 2*zeta, A2 = 2*zeta^2, zeta = exp(i*pi/5)
SmallSeed1 ==
    Tile("Small", Pt(<<4, 0>>, <<0, 0>>), Pt(<<0, 0>>, <<0, 0>>),
                  Pt(<<0, 2>>, <<2, 0>>))
SmallSeed2 ==
    Tile("Small", Pt(<<-2, 2>>, <<0, 2>>), Pt(<<0, 0>>, <<0, 0>>),
                  Pt(<<0, 2>>, <<2, 0>>))
Translate(t, d) ==
    Tile(t.kind, PAdd(t.A, d), PAdd(t.vertex, d), PAdd(t.B, d))
\* three copies of LargeSeed with rhombus centers 0, 2 - 4i*s, 2 + 4i*s
\* (s = sin(pi/5)): distinct, mirror images of one another in the real axis,
\* the outer two 4.7 apart and each 3.1 from the first
ClusterSeed ==
    << LargeSeed,
       Translate(LargeSeed, Pt(<<4, 0>>, <<-4, 0>>)),
       Translate(LargeSeed, Pt(<<4, 0>>, <<4, 0>>)) >>

\* a SmallTile on the base line of LargeSeed with the same base midpoint:
\* A = -psi, vertex = 2i*phi*s, B = psi (legs 2, base 2*psi)
CoincidingSmall ==
    Tile("Small", Pt(<<2, -2>>, <<0, 0>>), Pt(<<0, 0>>, <<0, 2>>),
                  Pt(<<-2, 2>>, <<0, 0>>))
MixedSeed == << LargeSeed, CoincidingSmall >>

SeedNames == {"None", "empty", "large", "small", "cluster", "mixed"}
\* the caller's starting_tiles list ("None": the caller passes None)
StartingTiles(name) ==
    LET s == CASE name = "large" -> <<LargeSeed>>
               [] name = "small" -> <<SmallSeed1, SmallSeed2>>
               [] name = "cluster" -> ClusterSeed
               [] name = "mixed" -> MixedSeed
               [] OTHER -> <<>>
    IN  [j \in 1..Len(s) |-> [s[j] EXCEPT !.ref = j]]

ScaleArgs == {0, 200}
MarginArgs == {0, 100}
ToleranceArgs == {-1, 0, 4}
RotationArgs == {0, 1}
ArgSets ==
    [scale : ScaleArgs, num_generations : 0..MaxGen, margin : MarginArgs,
     reflect_x : BOOLEAN, rotation : RotationArgs,
     equality_tol : ToleranceArgs, starting_tiles : SeedNames]

\* -------------------------------------------------------- decorative arcs
\* An end of an emitted arc: the point V + dir/2 (at = "half": (V + P)/2 is
\* V + (P - V)/2) or the point V + arc_radius*dir/abs(dir) (at = "radius")
ArcEnd(V, dir, at) == [from |-> V, dir |-> dir, at |-> at]
NoArcEnd == ArcEnd(Pt(<<0, 0>>, <<0, 0>>), Pt(<<0, 0>>, <<0, 0>>), "none")
ArcRaise(e) ==
    [err |-> e, swapped |-> FALSE, cross |-> 0, start |-> NoArcEnd,
     end |-> NoArcEnd]
NoArc == ArcRaise("none")

\* RobinsonTriangle.arc_path_defn(V, F, T, use_rhombus): the start and end
\* of the path "M start A r r 0 0 0 end", whether the two were exchanged,
\* and the sign of the cross product tested.
\*   assert abs(F - V) == abs(T - V)
\*   start_point = (V + F) / 2;  end_point = (V + T) / 2
\*   if not use_rhombus: VN = F + T - 2*V; end_point = V + r * (VN / abs(VN))
\*   VS, VE = start_point - V, end_point - V
\*   if ((VS.real * VE.imag) - (VS.imag * VE.real)): swap start and end
\* The cross product of VS and VE is that of their directions times a
\* positive number.  The two comparisons are made on floats: where exact
\* arithmetic gives equality and rounding can give either answer, lenEq and
\* crossNz say what the floats give.
arc_path_defn(V, F, T, use_rhombus, lenEq, crossNz) ==
    LET VF == PSub(F, V)
        VT == PSub(T, V)
        VN == PSub(PAdd(F, T), PScale(ZInt(2), V))
        Zero == Pt(<<0, 0>>, <<0, 0>>)
        VS == VF
        VE == IF use_rhombus THEN VT ELSE VN
        c == Cross(VS, VE)
        truthy == \/ ZSign(c) # 0
                  \/ crossNz /\ ~(use_rhombus /\ VF = VT)
        startEnd == ArcEnd(V, VS, "half")
        endEnd == ArcEnd(V, VE, IF use_rhombus THEN "half" ELSE "radius")
    IN  IF ~(NormSq4(VF) = NormSq4(VT) /\ (VF = VT \/ lenEq))
        THEN ArcRaise("AssertionError")
        ELSE IF ~use_rhombus /\ VN = Zero
        THEN ArcRaise("ZeroDivisionError")
        ELSE [err |-> "none", swapped |-> truthy, cross |-> ZSign(c),
              start |-> IF truthy THEN endEnd ELSE startEnd,
              end |-> IF truthy THEN startEnd ELSE endEnd]

\* RobinsonTriangle.get_arc_paths: D = A - vertex + B, then the arcs about A
\* and about B, each from vertex to D (the second is not computed when the
\* first raises)
get_arc_paths(t, use_rhombus, lenEq, crossNz) ==
    LET D == PAdd(PSub(t.A, t.vertex), t.B)
        first == arc_path_defn(t.A, t.vertex, D, use_rhombus, lenEq[1],
                               crossNz[1])
    IN  << first,
           IF first.err # "none" THEN NoArc
           ELSE arc_path_defn(t.B, t.vertex, D, use_rhombus, lenEq[2],
                              crossNz[2]) >>

\* the inputs arc_path_defn is applied to: V, and F, T at these offsets
\* from V (six of length 2 at multiples of 36 degrees, one of length 1)
ArcCenters == {Pt(<<0, 0>>, <<0, 0>>), Pt(<<2, 0>>, <<0, 2>>)}
ArcOffsets ==
    {Pt(<<4, 0>>, <<0, 0>>), Pt(<<-4, 0>>, <<0, 0>>),
     Pt(<<0, 2>>, <<2, 0>>), Pt(<<0, 2>>, <<-2, 0>>),
     Pt(<<0, -2>>, <<2, 0>>), Pt(<<0, -2>>, <<-2, 0>>),
     Pt(<<2, 0>>, <<0, 0>>)}
ArcTiles == {LargeSeed, conjugate(LargeSeed), SmallSeed1}
ArcInputs ==
    [V : ArcCenters, dF : ArcOffsets, dT : ArcOffsets, tile : ArcTiles,
     use_rhombus : BOOLEAN]

\* ------------------------------------------------------------------- state
VARIABLES
    args,             \* what the caller passes to Canvas(...)
    pc,               \* "start", "failed" (the constructor raised), "idle",
                      \* or the step make_tiling is about to take
    scale, num_generations, config,   \* fields of the Canvas
    elements,         \* self.elements (<<>> while isNone)
    isNone,           \* self.elements is None
    aliased,          \* self.elements is the caller's list object
    callerList,       \* the caller's starting_tiles list, as it is now
    i,                \* inflations done by the running make_tiling
    calls,            \* methods the current (last) make_tiling has called
    nops,             \* how many methods the caller has invoked
    lastCall,         \* the method invoked last, by the caller or make_tiling
    err,              \* exception raised by the last call, or "none"
    generation,       \* history: inflations applied to the seed collection,
                      \* -1 once it has been deduplicated or mirrored
    shape,            \* history: "deduped" while self.elements is as
                      \* remove_duplicates left it, else "raw"
    outcome,          \* history: the last make_tiling call: "none" (never
                      \* called), "running", "returned" or "raised"
    arc               \* the caller's use of arc_path_defn / get_arc_paths:
                      \* the inputs, how far it got, and what was returned

canvasVars ==
    <<args, pc, scale, num_generations, config, elements, isNone, aliased,
      callerList, i, calls, nops, lastCall, err, generation, shape, outcome>>
vars == <<canvasVars, arc>>
canvasFields == <<scale, num_generations, config, isNone>>

\* before Canvas(...) is called
BeforeConstruction ==
    /\ args \in ArgSets
    /\ pc = "start"
    /\ scale = 0
    /\ num_generations = 0
    /\ config = get_default_config
    /\ elements = <<>>
    /\ isNone = TRUE
    /\ aliased = FALSE
    /\ callerList = StartingTiles(args.starting_tiles)
    /\ i = 0
    /\ calls = <<>>
    /\ nops = 0
    /\ lastCall = "none"
    /\ err = "none"
    /\ generation = 0
    /\ shape = "raw"
    /\ outcome = "none"

\* arc_path_defn / get_arc_paths about to be applied to the inputs a
ArcStart(a) == [pc |-> "start", in |-> a, out1 |-> NoArc, out2 |-> NoArc]
DefaultArcInput ==
    [V |-> Pt(<<0, 0>>, <<0, 0>>), dF |-> Pt(<<4, 0>>, <<0, 0>>),
     dT |-> Pt(<<4, 0>>, <<0, 0>>), tile |-> LargeSeed, use_rhombus |-> FALSE]

\* the Canvas is used; no arc is drawn
Init ==
    /\ BeforeConstruction
    /\ arc = [ArcStart(DefaultArcInput) EXCEPT !.pc = "unused"]

\* ------------------------------------------------------------- construction
\* the first assertion of __init__ letting num_generations = 0 through
InitArgsOK_zero_allowed(sc, ng) == sc > 0 /\ ng >= 0

\* assert (scale > 0) and (num_generations > 0)
InitArgsOK(sc, ng) == sc > 0 /\ ng > 0
\* the three assertions on self.config (rotation is never complex here)
ConfigOK(cfg) == 0 <= cfg.margin /\ cfg.margin < 100 /\ cfg.equality_tol >= 0

\* Canvas.__init__, with reset_elements(starting_tiles): the list is stored,
\* not copied
CanvasInit ==
    /\ pc = "start"
    /\ LET cfg == [get_default_config EXCEPT
                     !.margin = args.margin, !.reflect_x = args.reflect_x,
                     !.rotation = args.rotation,
                     !.equality_tol = args.equality_tol]
       IN  IF InitArgsOK(args.scale, args.num_generations) /\ ConfigOK(cfg)
           THEN /\ pc' = "idle"
                /\ scale' = args.scale
                /\ num_generations' = args.num_generations
                /\ config' = cfg
                /\ isNone' = (args.starting_tiles = "None")
                /\ elements' = callerList
                /\ aliased' = (args.starting_tiles # "None")
                /\ err' = "none"
           ELSE /\ pc' = "failed"
                /\ err' = "AssertionError"
                /\ UNCHANGED <<scale, num_generations, config, isNone,
                               elements, aliased>>
    /\ lastCall' = "__init__"
    /\ UNCHANGED <<args, arc, callerList, i, calls, nops, generation, shape,
                   outcome>>

\* ----------------------------------------------------------------- methods
\* the assertion with >= in place of >
len_check_empty_allowed(none, els) ==
    IF none THEN "TypeError"
    ELSE IF Len(els) >= 0 THEN "none" ELSE "AssertionError"

\* assert len(self.elements) > 0 : len(None) raises TypeError
len_check(none, els) ==
    IF none THEN "TypeError"
    ELSE IF Len(els) > 0 THEN "none" ELSE "AssertionError"

\* what constructing tile t raises
ConstructError(t) ==
    IF ~TriangleOK(t) THEN "AssertionError"
    ELSE IF leg_length_sq4(t) = ZInt(0) THEN "ZeroDivisionError"
    ELSE IF ~RatioOK(t) THEN "AssertionError"
    ELSE "none"
\* what constructing the tiles of ts, in order, raises first
FirstError(ts) ==
    LET bad == {j \in 1..Len(ts) : ConstructError(ts[j]) # "none"}
    IN  IF bad = {} THEN "none"
        ELSE ConstructError(ts[CHOOSE j \in bad : \A k \in bad : j <= k])

Raise(e) ==
    err' = e /\ UNCHANGED <<elements, callerList, aliased, generation, shape>>

\* for e in self.elements: <assign e.A, e.vertex, e.B> : the tile objects are
\* changed in place, so the caller's list sees it where it holds them too
InPlace(F(_)) ==
    /\ elements' = [j \in 1..Len(elements) |-> F(elements[j])]
    /\ callerList' =
         [j \in 1..Len(callerList) |->
            IF \E k \in 1..Len(elements) : elements[k].ref = j
            THEN F(callerList[j]) ELSE callerList[j]]
    /\ UNCHANGED <<aliased, generation>>
    /\ shape' = "raw"
    /\ err' = "none"

inflate ==
    LET chk == len_check(isNone, elements)
        new == inflate_list(elements)
    IN  IF chk # "none" THEN Raise(chk)
        ELSE IF FirstError(new) # "none" THEN Raise(FirstError(new))
        ELSE /\ Len(new) <= MaxTiles
             /\ elements' = new
             /\ aliased' = FALSE
             /\ err' = "none"
             /\ generation' = IF generation >= 0 THEN generation + 1 ELSE -1
             /\ shape' = "raw"
             /\ UNCHANGED callerList

remove_duplicates ==
    LET chk == len_check(isNone, elements)
    IN  IF chk # "none" THEN Raise(chk)
        ELSE IF Len(elements) = 0 THEN Raise("IndexError")
        ELSE /\ elements' =
                  remove_duplicates_list(elements, config.equality_tol)
             /\ aliased' = FALSE
             /\ err' = "none"
             /\ generation' = -1
             /\ shape' = "deduped"
             /\ UNCHANGED callerList

add_conjugate_elements ==
    LET chk == len_check(isNone, elements)
        new == conjugate_list(elements)
        n == Len(elements)
    IN  IF chk # "none" THEN Raise(chk)
        ELSE IF FirstError(new) # "none" THEN Raise(FirstError(new))
        ELSE /\ 2 * n <= MaxTiles
             \* self.elements.extend(...): the list object itself grows
             /\ elements' = elements \o
                  [j \in 1..n |->
                     [new[j] EXCEPT !.ref = IF aliased THEN n + j ELSE 0]]
             /\ callerList' = IF aliased THEN elements' ELSE callerList
             /\ err' = "none"
             /\ generation' = -1
             /\ shape' = "raw"
             /\ UNCHANGED aliased

rotate_one(t) == rotate_tile(t, config.rotation)
rotate ==
    LET chk == len_check(isNone, elements)
    IN  IF chk # "none" THEN Raise(chk) ELSE InPlace(rotate_one)

flip_about_yaxis ==
    LET chk == len_check(isNone, elements)
    IN  IF chk # "none" THEN Raise(chk) ELSE InPlace(flip_about_yaxis_tile)

flip_about_xaxis ==
    LET chk == len_check(isNone, elements)
    IN  IF chk # "none" THEN Raise(chk) ELSE InPlace(flip_about_xaxis_tile)

\* get_SVG_code reads the Canvas and returns text
get_SVG_code ==
    LET chk == len_check(isNone, elements)
    IN  /\ err' = chk
        /\ UNCHANGED <<elements, callerList, aliased, generation, shape>>

\* ----------------------------------------------- the caller's direct calls
CallerOp(op) ==
    /\ pc = "idle"
    /\ nops < MaxOps
    /\ nops' = nops + 1
    /\ lastCall' = op
    /\ UNCHANGED <<args, arc, canvasFields>>

Inflate ==
    CallerOp("inflate") /\ inflate /\ UNCHANGED <<pc, i, calls, outcome>>
RemoveDuplicates ==
    CallerOp("remove_duplicates") /\ remove_duplicates
        /\ UNCHANGED <<pc, i, calls, outcome>>
AddConjugateElements ==
    CallerOp("add_conjugate_elements") /\ add_conjugate_elements
        /\ UNCHANGED <<pc, i, calls, outcome>>
Rotate ==
    CallerOp("rotate") /\ rotate /\ UNCHANGED <<pc, i, calls, outcome>>
FlipAboutYaxis ==
    CallerOp("flip_about_yaxis") /\ flip_about_yaxis
        /\ UNCHANGED <<pc, i, calls, outcome>>
FlipAboutXaxis ==
    CallerOp("flip_about_xaxis") /\ flip_about_xaxis
        /\ UNCHANGED <<pc, i, calls, outcome>>
GetSVGCode ==
    CallerOp("get_SVG_code") /\ get_SVG_code /\ UNCHANGED <<pc, i, calls, outcome>>

\* ------------------------------------------------------------- make_tiling
\* Where make_tiling goes after step `at` ("call": on entry), k inflations
\* having been done:
\*   for _ in range(self.num_generations): self.inflate()
\*   self.remove_duplicates()
\*   if self.config['reflect-x']: self.add_conjugate_elements(); self.remove_duplicates()
\*   if self.config['rotation']: self.rotate()
make_tiling_next_unconditional_rotate(at, k) ==
    CASE at \in {"call", "mt_inflate"} ->
           IF k < num_generations THEN "mt_inflate" ELSE "mt_dedup"
      [] at = "mt_dedup" ->
           IF config.reflect_x THEN "mt_mirror" ELSE "mt_rotate"
      [] at = "mt_mirror" -> "mt_dedup2"
      [] at = "mt_dedup2" -> "mt_rotate"
      [] OTHER -> "idle"

make_tiling_next(at, k) ==
    LET rot == IF config.rotation # 0 THEN "mt_rotate" ELSE "idle"
    IN  CASE at \in {"call", "mt_inflate"} ->
               IF k < num_generations THEN "mt_inflate" ELSE "mt_dedup"
          [] at = "mt_dedup" -> IF config.reflect_x THEN "mt_mirror" ELSE rot
          [] at = "mt_mirror" -> "mt_dedup2"
          [] at = "mt_dedup2" -> rot
          [] OTHER -> "idle"

\* one call made by make_tiling; an exception ends make_tiling
MtStep(at, name, k) ==
    /\ pc = at
    /\ calls' = Append(calls, name)
    /\ i' = k
    /\ pc' = IF err' # "none" THEN "idle" ELSE make_tiling_next(at, k)
    /\ outcome' = IF err' # "none" THEN "raised"
                  ELSE IF pc' = "idle" THEN "returned" ELSE "running"
    /\ lastCall' = name
    /\ UNCHANGED <<args, arc, canvasFields, nops>>

MakeTiling ==
    /\ CallerOp("make_tiling")
    /\ pc' = make_tiling_next("call", 0)
    /\ i' = 0
    /\ calls' = <<>>
    /\ err' = "none"
    /\ outcome' = "running"
    /\ UNCHANGED <<elements, callerList, aliased, generation, shape>>
MtInflate == inflate /\ MtStep("mt_inflate", "inflate", i + 1)
MtRemoveDuplicates ==
    remove_duplicates /\ MtStep("mt_dedup", "remove_duplicates", i)
MtAddConjugateElements ==
    add_conjugate_elements /\ MtStep("mt_mirror", "add_conjugate_elements", i)
MtRemoveDuplicatesAgain ==
    remove_duplicates /\ MtStep("mt_dedup2", "remove_duplicates", i)
MtRotate == rotate /\ MtStep("mt_rotate", "rotate", i)

Next ==
    \/ CanvasInit
    \/ Inflate
    \/ RemoveDuplicates
    \/ AddConjugateElements
    \/ Rotate
    \/ FlipAboutYaxis
    \/ FlipAboutXaxis
    \/ GetSVGCode
    \/ MakeTiling
    \/ MtInflate
    \/ MtRemoveDuplicates
    \/ MtAddConjugateElements
    \/ MtRemoveDuplicatesAgain
    \/ MtRotate

Spec == Init /\ [][Next]_vars

\* ------------------------------------------------- the arcs, on their own
\* arc_path_defn is a static method and get_arc_paths reads one tile: the
\* caller applies them to inputs of its choice, no Canvas being involved.
DefaultArgs ==
    [scale |-> 200, num_generations |-> 1, margin |-> 0, reflect_x |-> FALSE,
     rotation |-> 0, equality_tol |-> 0, starting_tiles |-> "large"]
ArcInit ==
    /\ BeforeConstruction
    /\ args = DefaultArgs
    /\ arc \in {ArcStart(a) : a \in ArcInputs}

\* arc_path_defn(V, F, T, use_rhombus)
ArcPathDefn ==
    /\ arc.pc = "start"
    /\ \E lenEq, crossNz \in BOOLEAN :
         arc' = [arc EXCEPT
                   !.pc = "called",
                   !.out1 = arc_path_defn(arc.in.V, PAdd(arc.in.V, arc.in.dF),
                                          PAdd(arc.in.V, arc.in.dT),
                                          arc.in.use_rhombus, lenEq, crossNz)]
    /\ UNCHANGED canvasVars
\* then arc_path_defn(V, T, F, use_rhombus): the same call with F and T
\* exchanged
ArcPathDefnExchanged ==
    /\ arc.pc = "called"
    /\ \E lenEq, crossNz \in BOOLEAN :
         arc' = [arc EXCEPT
                   !.pc = "exchanged",
                   !.out2 = arc_path_defn(arc.in.V, PAdd(arc.in.V, arc.in.dT),
                                          PAdd(arc.in.V, arc.in.dF),
                                          arc.in.use_rhombus, lenEq, crossNz)]
    /\ UNCHANGED canvasVars
\* tile.get_arc_paths(use_rhombus)
GetArcPaths ==
    /\ arc.pc = "start"
    /\ \E lenEq, crossNz \in BOOLEAN \X BOOLEAN :
         LET paths == get_arc_paths(arc.in.tile, arc.in.use_rhombus, lenEq,
                                    crossNz)
         IN  arc' = [arc EXCEPT !.pc = "paths", !.out1 = paths[1],
                                !.out2 = paths[2]]
    /\ UNCHANGED canvasVars

ArcNext == ArcPathDefn \/ ArcPathDefnExchanged \/ GetArcPaths
ArcSpec == ArcInit /\ [][ArcNext]_vars

\* ================================================================== claims
\* a step in which method op is invoked, by the caller or by make_tiling
Called(op) ==
    /\ lastCall' = op
    /\ nops' = nops + 1 \/ Len(calls') = Len(calls) + 1
Succeeded(op) == Called(op) /\ err' = "none"
Constructed == pc \notin {"start", "failed"}

NumLarge(els) == Cardinality({j \in 1..Len(els) : els[j].kind = "Large"})
NumSmall(els) == Cardinality({j \in 1..Len(els) : els[j].kind = "Small"})
\* where the children of parent j start in the inflated list, minus one
ChildOffset(els, j) ==
    2 * (j - 1) + Cardinality({k \in 1..(j - 1) : els[k].kind = "Large"})
\* the children at positions o+1.. of new are those of parent p: kinds in
\* the order [Large, Small, Large] or [Small, Large], corners on p's corners
ChildrenOf(p, new, o) ==
    IF p.kind = "Large"
    THEN /\ new[o + 1].kind = "Large" /\ new[o + 1].B = p.A
         /\ new[o + 2].kind = "Small" /\ new[o + 2].B = p.vertex
         /\ new[o + 3].kind = "Large" /\ new[o + 3].A = p.B
         /\ new[o + 3].B = p.vertex
    ELSE /\ new[o + 1].kind = "Small" /\ new[o + 1].B = p.A
         /\ new[o + 1].vertex = p.B
         /\ new[o + 2].kind = "Large" /\ new[o + 2].A = p.B
         /\ new[o + 2].B = p.vertex
RECURSIVE CountsAfter(_, _, _)
\* <<large, small>> after k inflations of l large and s small tiles
CountsAfter(k, l, s) ==
    IF k = 0 THEN <<l, s>> ELSE CountsAfter(k - 1, 2*l + s, l + s)
SeedList == StartingTiles(args.starting_tiles)

\* C1: Canvas.inflate replaces the collection by the children of its tiles
\* in parent order, three ([Large, Small, Large]) for a LargeTile and two
\* ([Small, Large]) for a SmallTile, so L large and S small tiles become
\* 2L+S large and L+S small, and after k inflations of a seed the counts are
\* the k-th iterate of that recurrence.
C1_InflateStep ==
    Succeeded("inflate") =>
        /\ Len(elements') = 3 * NumLarge(elements) + 2 * NumSmall(elements)
        /\ NumLarge(elements') = 2 * NumLarge(elements) + NumSmall(elements)
        /\ NumSmall(elements') = NumLarge(elements) + NumSmall(elements)
        /\ \A j \in 1..Len(elements) :
              ChildrenOf(elements[j], elements', ChildOffset(elements, j))
C1_Recurrence ==
    (Constructed /\ generation >= 0) =>
        <<NumLarge(elements), NumSmall(elements)>> =
            CountsAfter(generation, NumLarge(SeedList), NumSmall(SeedList))
\* C1: every Canvas.inflate step is the substitution above, and after k
\* inflations of a seed the counts follow L' = 2L+S, S' = L+S.
C1_InflateSubstitution == []C1_Recurrence /\ [][C1_InflateStep]_vars
\* two inflations of the single LargeTile: 5 large and 3 small tiles
C1_Witness ==
    /\ generation = 2 /\ lastCall = "inflate" /\ err = "none"
    /\ args.starting_tiles = "large"
    /\ NumLarge(elements) = 5 /\ NumSmall(elements) = 3

IsPrefix(p, q) == Len(p) <= Len(q) /\ SubSeq(q, 1, Len(p)) = p
\* the calls make_tiling is to make, in order
ExpectedCalls ==
    [k \in 1..num_generations |-> "inflate"]
        \o <<"remove_duplicates">>
        \o (IF config.reflect_x
            THEN <<"add_conjugate_elements", "remove_duplicates">> ELSE <<>>)
        \o (IF config.rotation # 0 THEN <<"rotate">> ELSE <<>>)
\* the method make_tiling calls at each of its steps
StepCall ==
    [mt_inflate |-> "inflate", mt_dedup |-> "remove_duplicates",
     mt_mirror |-> "add_conjugate_elements", mt_dedup2 |-> "remove_duplicates",
     mt_rotate |-> "rotate"]

\* C2: make_tiling calls inflate exactly num_generations times, then
\* remove_duplicates once, then add_conjugate_elements and remove_duplicates
\* iff reflect-x is set, then rotate iff rotation is nonzero, in this order
\* and nothing else: a run that returns has made exactly these calls, a run
\* under way or ended by an exception has made a prefix of them and is about
\* to make the next one; no inflate follows a remove_duplicates and no
\* remove_duplicates follows rotate.
C2_MakeTilingOrder ==
    /\ outcome = "returned" => calls = ExpectedCalls
    /\ outcome \in {"running", "raised"} => IsPrefix(calls, ExpectedCalls)
    /\ outcome = "running" <=> pc \in DOMAIN StepCall
    /\ outcome = "running" =>
          /\ Len(calls) < Len(ExpectedCalls)
          /\ ExpectedCalls[Len(calls) + 1] = StepCall[pc]
    /\ \A j, k \in 1..Len(calls) :
          j < k =>
             /\ calls[j] = "remove_duplicates" => calls[k] # "inflate"
             /\ calls[j] = "rotate" => calls[k] # "remove_duplicates"
\* a run with two generations, mirroring and a rotation has returned
C2_Witness ==
    /\ outcome = "returned"
    /\ calls = <<"inflate", "inflate", "remove_duplicates",
                 "add_conjugate_elements", "remove_duplicates", "rotate">>

\* num_generations = ng with a non-empty seed and every other argument valid
ArgsValidBut(ng) ==
    /\ args.num_generations = ng
    /\ args.starting_tiles \notin {"None", "empty"}
    /\ args.scale > 0
    /\ 0 <= args.margin /\ args.margin < 100
    /\ args.equality_tol >= 0

\* C3 as stated: a tiling can be run with num_generations = 0; the run is
\* accepted, performs no inflation and leaves the collection equal to the
\* seed.
C3_ZeroGenerationsAccepted ==
    (pc # "start" /\ ArgsValidBut(0)) =>
        /\ pc # "failed"
        /\ \A k \in 1..Len(calls) : calls[k] # "inflate"
\* C3 amended: Canvas(num_generations=0) is rejected: __init__ raises
\* AssertionError, no method runs and the caller's seed list stays as it
\* was; every make_tiling call belongs to a Canvas with num_generations >= 1
\* and a run that returns has inflated at least once.  The unmodified seed
\* (generation 0) is what a constructed Canvas holds before any call.
C3_ZeroGenerationsRejected ==
    /\ (pc # "start" /\ args.num_generations = 0) =>
          /\ pc = "failed" /\ err = "AssertionError"
          /\ nops = 0 /\ calls = <<>> /\ outcome = "none"
          /\ callerList = SeedList
    /\ outcome # "none" => num_generations >= 1
    /\ outcome = "returned" => calls[1] = "inflate"
    /\ (pc = "idle" /\ nops = 0 /\ ~isNone) => elements = SeedList
\* num_generations = 0, all else valid: the constructor has raised
C3_Witness == pc = "failed" /\ ArgsValidBut(0)

RECURSIVE KeptScan(_, _, _)
\* the scan of the sorted list s up to index n that compares each tile with
\* the tile kept last
KeptScan(s, n, tol) ==
    IF n = 1 THEN <<s[1]>>
    ELSE LET kept == KeptScan(s, n - 1, tol)
         IN  IF ~CentersClose(s[n], kept[Len(kept)], tol)
             THEN Append(kept, s[n]) ELSE kept
\* s is in ascending order of rhombus center (real part, then imaginary)
SortedByCenter(s) == \A j \in 1..(Len(s) - 1) : ~KeyLess(s[j + 1], s[j])

\* C4: remove_duplicates sorts the tiles by rhombus center (real, then
\* imaginary part), keeps the first and keeps each later tile exactly when
\* its center is farther than the tolerance from the center of the tile
\* kept last.
C4_KeepsAgainstLastKept ==
    [][Succeeded("remove_duplicates") =>
          /\ SortedByCenter(elements')
          /\ elements' = KeptScan(sorted(elements), Len(elements),
                                  config.equality_tol)]_vars

\* C5: remove_duplicates is idempotent: applied to the list it has just
\* left, it leaves the same tiles in the same order.
C5_Idempotent ==
    [][(shape = "deduped" /\ Succeeded("remove_duplicates")) =>
          elements' = elements]_vars

\* no two tiles have rhombus centers within tol of each other
DuplicateFree(els, tol) ==
    \A j, k \in 1..Len(els) : j # k => ~CentersClose(els[j], els[k], tol)
\* the conjugate of every rhombus center is the rhombus center of a tile
SymmetricAboutRealAxis(els) ==
    \A j \in 1..Len(els) : \E k \in 1..Len(els) :
        rhombus_center2(els[k]) = PConj(rhombus_center2(els[j]))
FirstHalf(els) == SubSeq(els, 1, Len(els) \div 2)
IsConjugateOf(u, t) ==
    /\ u.kind = t.kind
    /\ u.A.re = t.A.re /\ u.A.im = ZNeg(t.A.im)
    /\ u.vertex.re = t.vertex.re /\ u.vertex.im = ZNeg(t.vertex.im)
    /\ u.B.re = t.B.re /\ u.B.im = ZNeg(t.B.im)

\* C6: add_conjugate_elements appends the conjugate of every tile behind the
\* existing tiles, doubling the count; when the collection so mirrored was
\* deduplicated (no two rhombus centers within the tolerance) and symmetric
\* about the real axis, the remove_duplicates that follows leaves as many
\* tiles as there were before mirroring.
C6_Mirror ==
    Succeeded("add_conjugate_elements") =>
        /\ Len(elements') = 2 * Len(elements)
        /\ \A j \in 1..Len(elements) :
              /\ elements'[j] = elements[j]
              /\ IsConjugateOf(elements'[Len(elements) + j], elements[j])
C6_DedupAfterMirror ==
    ( /\ lastCall = "add_conjugate_elements" /\ err = "none"
      /\ DuplicateFree(FirstHalf(elements), config.equality_tol)
      /\ SymmetricAboutRealAxis(FirstHalf(elements))
      /\ Succeeded("remove_duplicates") ) =>
        Len(elements') = Len(elements) \div 2
C7_FlipKeepsTiles ==
    /\ Len(elements') = Len(elements)
    /\ \A j \in 1..Len(elements) :
          elements'[j].kind = elements[j].kind
C7_FlipX ==
    Succeeded("flip_about_xaxis") =>
        /\ C7_FlipKeepsTiles
        /\ \A j \in 1..Len(elements) : \A c \in {"A", "vertex", "B"} :
              /\ elements'[j][c].re = elements[j][c].re
              /\ elements'[j][c].im = ZNeg(elements[j][c].im)
C7_FlipY ==
    Succeeded("flip_about_yaxis") =>
        /\ C7_FlipKeepsTiles
        /\ \A j \in 1..Len(elements) : \A c \in {"A", "vertex", "B"} :
              /\ elements'[j][c].re = ZNeg(elements[j][c].re)
              /\ elements'[j][c].im = elements[j][c].im
C7_TwiceRestores ==
    \A j \in 1..Len(elements) :
        /\ flip_about_xaxis_tile(flip_about_xaxis_tile(elements[j]))
              = elements[j]
        /\ flip_about_yaxis_tile(flip_about_yaxis_tile(elements[j]))
              = elements[j]
\* C7: each flip negates one component of A, vertex and B only and keeps
\* the number and order of tiles; a flip applied twice restores the tiles.
C7_FlipsNegateOneComponent ==
    []C7_TwiceRestores /\ [][C7_FlipX /\ C7_FlipY]_vars

Unseeded == isNone \/ Len(elements) = 0
\* C8: every Canvas method invoked on a Canvas whose collection is empty or
\* was never seeded raises (AssertionError from the len assertion, TypeError
\* from len(None)) before it changes anything: the collection, the caller's
\* list and the configuration are as before.  make_tiling fails in its first
\* call, inflate, and so never returns.
C8_UnseededStep ==
    (Constructed /\ Unseeded /\ (nops' # nops \/ calls' # calls)) =>
        /\ UNCHANGED <<elements, isNone, aliased, callerList, config, scale,
                       num_generations>>
        /\ IF lastCall' = "make_tiling"
           THEN pc' = "mt_inflate"
           ELSE /\ err' = (IF isNone THEN "TypeError" ELSE "AssertionError")
                /\ pc' = "idle"
C8_UnseededRun ==
    (Constructed /\ Unseeded) =>
        /\ outcome # "returned"
        /\ pc \in {"idle", "mt_inflate"}
        /\ outcome = "raised" => calls = <<"inflate">>
\* C8: on an unseeded or empty Canvas every method raises and leaves the
\* collection and the configuration as they were; make_tiling never returns.
C8_UnseededFailsUnchanged == []C8_UnseededRun /\ [][C8_UnseededStep]_vars
\* make_tiling on an empty list has raised AssertionError in inflate
C8_Witness ==
    /\ Constructed /\ ~isNone /\ Len(elements) = 0
    /\ outcome = "raised" /\ err = "AssertionError"
    /\ lastCall = "inflate" /\ nops = 2

\* C9: a Canvas owns its tiles by value: nothing done to a Canvas changes
\* the list the caller seeded it with, or the vertices of the tiles in it.
C9_SeedListUntouched == callerList = SeedList

\* twice the area of t, in units of sin(pi/5)/2
Area(t) == ZAbs(Cross(PSub(t.vertex, t.A), PSub(t.B, t.A)))
RECURSIVE TotalArea(_)
TotalArea(els) ==
    IF els = <<>> THEN <<0, 0>>
    ELSE ZAdd(Area(els[1]), TotalArea(Tail(els)))
\* t is isosceles with base : leg = phi (Large) or psi (Small)
ValidTile(t) ==
    /\ NormSq4(PSub(t.A, t.vertex)) = NormSq4(PSub(t.B, t.vertex))
    /\ NormSq4(PSub(t.A, t.vertex)) # <<0, 0>>
    /\ NormSq4(PSub(t.A, t.B)) =
         ZMul(IF t.kind = "Large" THEN <<1, 1>> ELSE <<2, -1>>,
              NormSq4(PSub(t.A, t.vertex)))
\* C10: inflation preserves area: the three children of a valid LargeTile,
\* and the two of a valid SmallTile, are valid tiles of their kinds with
\* legs psi times the parent's and areas adding up to the parent's; so
\* Canvas.inflate leaves the total area of the collection as it was.
C10_Children ==
    \A j \in 1..Len(elements) :
        LET t == elements[j]
            ch == tile_inflate(t)
        IN  ValidTile(t) =>
              /\ Len(ch) = (IF t.kind = "Large" THEN 3 ELSE 2)
              /\ \A k \in 1..Len(ch) :
                    /\ ValidTile(ch[k])
                    /\ NormSq4(PSub(ch[k].A, ch[k].vertex)) =
                         ZMul(<<2, -1>>, NormSq4(PSub(t.A, t.vertex)))
              /\ TotalArea(ch) = Area(t)
              /\ Area(t) # <<0, 0>>
C10_InflateStep ==
    Succeeded("inflate") => TotalArea(elements') = TotalArea(elements)
\* C10: the children of every valid tile are valid, scaled by psi and of
\* the parent's total area, and Canvas.inflate keeps the total area.
C10_InflatePreservesArea == []C10_Children /\ [][C10_InflateStep]_vars
\* two inflations of the two SmallTiles: 10 tiles with the area of the seed
C10_Witness ==
    /\ args.starting_tiles = "small" /\ generation = 2 /\ err = "none"
    /\ Len(elements) = 10
    /\ TotalArea(elements) = TotalArea(SeedList)
    /\ \A j \in 1..Len(elements) : ValidTile(elements[j])


\* the sense in which an emitted arc runs from its start to its end about V:
\* the sign of the cross product of (start - V) and (end - V)
ArcOrientation(out) == ZSign(Cross(out.start.dir, out.end.dir))
ArcEmitted(out) == out.err = "none" /\ out.cross # 0
\* C11: arc_path_defn exchanges start and end by a test on the SIGN of the
\* cross product of (start - V) and (end - V): of two calls that differ only
\* by exchanging F and T (cross products of opposite sign) exactly one
\* exchanges its ends, and the two emit (start, end) pairs of the same
\* orientation about V.
C11_SwapBySignOfCross ==
    (arc.pc = "exchanged" /\ ArcEmitted(arc.out1) /\ ArcEmitted(arc.out2)) =>
        /\ arc.out1.swapped # arc.out2.swapped
        /\ ArcOrientation(arc.out1) = ArcOrientation(arc.out2)


\* els[j] is the earliest tile of els with its rhombus center
FirstWithCenter(els, j) ==
    \A k \in 1..(j - 1) : rhombus_center2(els[k]) # rhombus_center2(els[j])
\* C12: with tolerance 0, remove_duplicates returns exactly one tile per
\* distinct rhombus center of the collection, in ascending (real, imaginary)
\* order of center; the tile returned for a center is the earliest tile of
\* the collection with that center, whatever the kinds of the tiles.
C12_OnePerCenterEarliestFirst ==
    [][(Succeeded("remove_duplicates") /\ config.equality_tol = 0) =>
          LET firsts == {j \in 1..Len(elements) :
                           FirstWithCenter(elements, j)}
          IN  /\ Len(elements') = Cardinality(firsts)
              /\ \A m \in 1..Len(elements') :
                   \E j \in firsts : elements'[m] = elements[j]
              /\ \A m \in 1..(Len(elements') - 1) :
                   KeyLess(elements'[m], elements'[m + 1])]_vars
\* the LargeTile and the SmallTile of the mixed seed, which share a rhombus
\* center, deduplicated with tolerance 0: the LargeTile, first in the list,
\* is the one left
C12_Witness ==
    /\ args.starting_tiles = "mixed" /\ Constructed
    /\ config.equality_tol = 0
    /\ nops = 1 /\ lastCall = "remove_duplicates" /\ err = "none"
    /\ rhombus_center2(SeedList[1]) = rhombus_center2(SeedList[2])
    /\ SeedList[1].kind = "Large" /\ SeedList[2].kind = "Small"
    /\ elements = <<SeedList[1]>>

====
